---- MODULE Spec2Model ----
\* Model of cli/ops/signal.rs: the three signal ops (bind / poll / unbind),
\* the SignalStreamResource they keep in the resource table, and the
\* single-threaded event loop that polls the op_signal_poll futures.
EXTENDS Integers, FiniteSets, TLC

\* ---------------------------------------------------------------- bounds
\* Number of resources the table may ever hand out (caps next_rid).
MaxRid == 2
\* Number of op_signal_poll futures ever created.
MaxTasks == 2
\* Events a subscription may hold undelivered (caps signal_arrive).
MaxPending == 1
\* Resources and futures ever created, taken together.
MaxObjects == 3

\* ------------------------------------------------------------- constants
\* Option<Waker>::None; a present waker is the id of the task it wakes.
None == 0
\* `args.rid as u32` wraps modulo 2^32. TLC's integers are 32-bit signed, so
\* the modulus is scaled to 2^30: like 2^32 it lies above every identifier
\* the table hands out, so a negative rid still wraps to an absent one.
RidModulus == 1073741824

Tasks == 1..MaxTasks
\* rid arguments a caller may pass: negative, live, closed, never handed out.
RidArgs == (-1)..MaxRid
\* signo arguments: SIGINT, and SIGKILL (which signal() refuses).
SignoArgs == {2, 9}
\* Signals for which tokio's signal() returns Err.
Forbidden == {4, 8, 9, 11, 19}

VARIABLES
  unix,      \* cfg(unix): which set of op bodies was compiled in
  alive,     \* FALSE once an op has panicked
  table,     \* state.resource_table: rid -> resource
  next_rid,  \* the table's next identifier
  tasks,     \* the op_signal_poll futures held by the event loop
  bound,     \* history: the rids op_signal_bind has returned
  last       \* history: the last step taken and what the caller saw

vars == <<unix, alive, table, next_rid, tasks, bound, last>>

\* ------------------------------------------------------------ resources
\* SignalStreamResource(Signal, Option<Waker>): field 0 is the tokio Signal
\* (signo, undelivered events, the waker poll_recv registered), field 1 the
\* waker op_signal_poll stored.
SignalStreamResource_waker_set(signo) ==
  [kind |-> "signal", signo |-> signo, events |-> 0, rx |-> None, waker |-> 1]

SignalStreamResource(signo) ==
  [kind |-> "signal", signo |-> signo, events |-> 0, rx |-> None, waker |-> None]

\* A resource of another kind that some other op put in the shared table.
OtherResource ==
  [kind |-> "other", signo |-> 0, events |-> 0, rx |-> None, waker |-> None]

\* signal(SignalKind::from_raw(signo)) is Ok.
signal(signo) == signo >= 0 /\ signo \notin Forbidden

as_u32(r) == r % RidModulus

\* ResourceTable::add under the identifier rid.
add(tab, rid, res) ==
  [r \in (DOMAIN tab) \cup {rid} |-> IF r = rid THEN res ELSE tab[r]]

\* ResourceTable::get_mut::<SignalStreamResource>(rid) is Some.
get_mut(tab, rid) == rid \in DOMAIN tab /\ tab[rid].kind = "signal"

\* ResourceTable::close(rid): Some(()) and the entry removed, or None.
close(tab, rid) ==
  IF rid \in DOMAIN tab
    THEN [some |-> TRUE, tab |-> [r \in (DOMAIN tab) \ {rid} |-> tab[r]]]
    ELSE [some |-> FALSE, tab |-> tab]

\* Waker::wake: a suspended task is scheduled again; otherwise no effect.
wake_any(tks, w) ==
  IF w \in Tasks
    THEN [t \in Tasks |->
            IF tks[t].st = "suspended" THEN [tks[t] EXCEPT !.st = "ready"]
                                       ELSE tks[t]]
    ELSE tks

wake(tks, w) ==
  IF w \in Tasks /\ tks[w].st = "suspended"
    THEN [tks EXCEPT ![w].st = "ready"]
    ELSE tks

Woken(w) == IF w = None THEN {} ELSE {w}

\* A future of op_signal_poll: st is its place in the event loop, rid its
\* captured identifier, done its resolved "done" value. History: late (the
\* call came after its rid had been unbound), parked (it has returned
\* Pending), evt (a signal arrived on its live subscription after it parked),
\* again (it has returned Pending more than once).
NoTask ==
  [st |-> "none", rid |-> 0, done |-> FALSE,
   late |-> FALSE, parked |-> FALSE, evt |-> FALSE, again |-> FALSE]

Step(op, rid, task, res, woke) ==
  [op |-> op, rid |-> rid, task |-> task, res |-> res, woke |-> woke]

\* The resources and futures created so far.
Created ==
  next_rid + Cardinality({t \in Tasks : tasks[t].st # "none"})

\* ----------------------------------------------------------------- Init
Init ==
  /\ unix \in BOOLEAN
  /\ alive = TRUE
  /\ table = <<>>
  /\ next_rid = 0
  /\ tasks = [t \in Tasks |-> NoTask]
  /\ bound = {}
  /\ last = Step("init", -1, None, "ok", {})

\* ------------------------------------------------------- op_signal_bind
op_signal_bind(signo) ==
  /\ unix /\ alive
  /\ IF signal(signo)
       THEN /\ next_rid < MaxRid /\ Created < MaxObjects
            /\ table' = add(table, next_rid, SignalStreamResource(signo))
            /\ next_rid' = next_rid + 1
            /\ bound' = bound \cup {next_rid}
            /\ last' = Step("bind", next_rid, None, "ok", {})
            /\ UNCHANGED <<unix, alive, tasks>>
       ELSE \* .expect("") on Err
            /\ alive' = FALSE
            /\ last' = Step("bind", -1, None, "panic", {})
            /\ UNCHANGED <<unix, table, next_rid, tasks, bound>>

\* ------------------------------------------------------- op_signal_poll
\* The call: the async fn's future is handed to the event loop.
op_signal_poll(ridArg) ==
  /\ unix /\ alive
  /\ Created < MaxObjects
  /\ \E t \in Tasks :
       /\ tasks[t].st = "none"
       /\ \A u \in Tasks : u < t => tasks[u].st # "none"
       /\ tasks' = [tasks EXCEPT ![t] =
                     [NoTask EXCEPT !.st = "ready",
                                    !.rid = as_u32(ridArg),
                                    !.late = /\ as_u32(ridArg) \in bound
                                             /\ as_u32(ridArg) \notin DOMAIN table]]
       /\ last' = Step("poll_call", as_u32(ridArg), t, "ok", {})
  /\ UNCHANGED <<unix, alive, table, next_rid, bound>>

\* signal.1 = Some(cx.waker().clone())
store_waker_skipped(res, t) == res

store_waker(res, t) == [res EXCEPT !.waker = t]

\* Signal::poll_recv(cx): Ready(Some(())) taking one event, or Pending with
\* cx's waker registered.
poll_recv_pending(res, t) ==
  [ready |-> FALSE, res |-> [res EXCEPT !.rx = t]]

poll_recv_keeps_event(res, t) ==
  IF res.events > 0
    THEN [ready |-> TRUE, res |-> res]
    ELSE [ready |-> FALSE, res |-> [res EXCEPT !.rx = t]]

poll_recv(res, t) ==
  IF res.events > 0
    THEN [ready |-> TRUE, res |-> [res EXCEPT !.events = @ - 1]]
    ELSE [ready |-> FALSE, res |-> [res EXCEPT !.rx = t]]

\* "done": result.is_none()
done_inverted(some) == some

done(some) == ~some

\* One poll of the future by the event loop: the poll_fn closure, and on
\* Ready the rest of the async fn.
poll_fn(t) ==
  /\ unix /\ alive
  /\ tasks[t].st = "ready"
  /\ LET rid == tasks[t].rid IN
       IF get_mut(table, rid)
         THEN LET r == poll_recv(store_waker(table[rid], t), t) IN
                /\ table' = [table EXCEPT ![rid] = r.res]
                /\ IF r.ready
                     THEN /\ tasks' = [tasks EXCEPT ![t].st = "resolved",
                                                    ![t].done = done(TRUE)]
                          /\ last' = Step("poll", rid, t,
                                          IF done(TRUE) THEN "done_true"
                                                        ELSE "done_false", {})
                     ELSE /\ tasks' = [tasks EXCEPT ![t].st = "suspended",
                                                    ![t].parked = TRUE,
                                                    ![t].again = tasks[t].parked]
                          /\ last' = Step("poll", rid, t, "pending", {})
         ELSE /\ table' = table
              /\ tasks' = [tasks EXCEPT ![t].st = "resolved",
                                         ![t].done = done(FALSE)]
              /\ last' = Step("poll", rid, t,
                              IF done(FALSE) THEN "done_true"
                                             ELSE "done_false", {})
  /\ UNCHANGED <<unix, alive, next_rid, bound>>

\* ----------------------------------------------------- op_signal_unbind
\* if let Some(waker) = &signal.1 { waker.clone().wake() }
unbind_waker_dropped(tab, rid) == None

unbind_waker_any(tab, rid) ==
  LET ws == {tab[r].waker : r \in {x \in DOMAIN tab : tab[x].kind = "signal"}}
            \ {None}
  IN IF get_mut(tab, rid) /\ ws # {} THEN CHOOSE w \in ws : TRUE ELSE None

unbind_waker(tab, rid) ==
  IF get_mut(tab, rid) THEN tab[rid].waker ELSE None

\* resource_table.close(rid).ok_or_else(ErrBox::bad_resource_id)?
close_result_ignored(some) == "ok"

close_result(some) == IF some THEN "ok" ELSE "bad_resource_id"

op_signal_unbind_keeps(ridArg) ==
  /\ unix /\ alive
  /\ LET rid == as_u32(ridArg)
         w   == unbind_waker(table, rid)
         c   == close(table, rid)
     IN /\ tasks' = wake(tasks, w)
        /\ table' = table
        /\ last' = Step("unbind", rid, None, close_result(c.some), Woken(w))
  /\ UNCHANGED <<unix, alive, next_rid, bound>>

op_signal_unbind(ridArg) ==
  /\ unix /\ alive
  /\ LET rid == as_u32(ridArg)
         w   == unbind_waker(table, rid)
         c   == close(table, rid)
     IN /\ tasks' = wake(tasks, w)
        /\ table' = c.tab
        /\ last' = Step("unbind", rid, None, close_result(c.some), Woken(w))
  /\ UNCHANGED <<unix, alive, next_rid, bound>>

\* ------------------------------------------------------ not(unix) stubs
op_signal_bind_not_unix ==
  /\ ~unix /\ alive
  /\ alive' = FALSE
  /\ last' = Step("bind", -1, None, "panic", {})
  /\ UNCHANGED <<unix, table, next_rid, tasks, bound>>

op_signal_unbind_not_unix ==
  /\ ~unix /\ alive
  /\ alive' = FALSE
  /\ last' = Step("unbind", -1, None, "panic", {})
  /\ UNCHANGED <<unix, table, next_rid, tasks, bound>>

op_signal_poll_not_unix ==
  /\ ~unix /\ alive
  /\ alive' = FALSE
  /\ last' = Step("poll", -1, None, "panic", {})
  /\ UNCHANGED <<unix, table, next_rid, tasks, bound>>

\* ---------------------------------------------------------- environment
\* The OS delivers signo: every live subscription to it gains an event and
\* the waker its poll_recv registered is taken and woken.
Subscribed(signo) ==
  {r \in DOMAIN table : table[r].kind = "signal" /\ table[r].signo = signo}

RECURSIVE wake_all(_, _)
wake_all(tks, ws) ==
  IF ws = {} THEN tks
  ELSE LET w == CHOOSE x \in ws : TRUE IN wake_all(wake(tks, w), ws \ {w})

signal_arrive(signo) ==
  /\ alive
  /\ Subscribed(signo) # {}
  /\ \A r \in Subscribed(signo) : table[r].events < MaxPending
  /\ LET rs == Subscribed(signo)
         ws == {table[r].rx : r \in rs} \ {None}
         tk == wake_all(tasks, ws)
     IN /\ table' = [r \in DOMAIN table |->
                       IF r \in rs
                         THEN [table[r] EXCEPT !.events = @ + 1, !.rx = None]
                         ELSE table[r]]
        /\ tasks' = [t \in Tasks |->
                       IF /\ tk[t].st \in {"ready", "suspended"}
                          /\ tk[t].parked
                          /\ tk[t].rid \in rs
                         THEN [tk[t] EXCEPT !.evt = TRUE]
                         ELSE tk[t]]
        /\ last' = Step("signal", signo, None, "ok", ws)
  /\ UNCHANGED <<unix, alive, next_rid, bound>>

\* Another op registers a resource of its own kind in the shared table.
add_other ==
  /\ alive
  /\ next_rid < MaxRid /\ Created < MaxObjects
  /\ table' = add(table, next_rid, OtherResource)
  /\ next_rid' = next_rid + 1
  /\ last' = Step("add_other", next_rid, None, "ok", {})
  /\ UNCHANGED <<unix, alive, tasks, bound>>

\* The event loop polls a suspended future again without its stored waker
\* having been invoked by a signal or by unbind.
spurious_wake(t) ==
  /\ alive
  /\ tasks[t].st = "suspended"
  /\ tasks' = wake(tasks, t)
  /\ last' = Step("wake", tasks[t].rid, t, "ok", {t})
  /\ UNCHANGED <<unix, alive, table, next_rid, bound>>

\* ----------------------------------------------------------------- Next
Bind == \E signo \in SignoArgs : op_signal_bind(signo)
PollCall == \E r \in RidArgs : op_signal_poll(r)
PollStep == \E t \in Tasks : poll_fn(t)
Unbind == \E r \in RidArgs : op_signal_unbind(r)
SignalArrive == \E signo \in SignoArgs : signal_arrive(signo)
SpuriousWake == \E t \in Tasks : spurious_wake(t)

Next ==
  \/ Bind
  \/ PollCall
  \/ PollStep
  \/ Unbind
  \/ op_signal_bind_not_unix
  \/ op_signal_poll_not_unix
  \/ op_signal_unbind_not_unix
  \/ SignalArrive
  \/ add_other
  \/ SpuriousWake

Spec == Init /\ [][Next]_vars

\* --------------------------------------------------------------- claims
\* The tasks suspended on rid X.
SuspendedOn(X) == {t \in Tasks : tasks[t].st = "suspended" /\ tasks[t].rid = X}

\* The rids op_signal_bind returned that the table no longer holds.
Unbound == bound \ DOMAIN table

\* t is the only future ever created for its rid.
Sole(t) == \A u \in Tasks \ {t} : tasks[u].st = "none" \/ tasks[u].rid # tasks[t].rid

\* In this step the event loop polled task t.
Polled(t) == tasks[t].st = "ready" /\ last'.op = "poll" /\ last'.task = t

\* C1 (no stuck task): when exactly one Poll is suspended on a live signal
\* rid X with its waker stored and Unbind(X) runs, the Unbind succeeds,
\* invokes that waker and removes X, so the task is scheduled; X stays absent
\* and the task stays scheduled until the event loop polls it; and that poll
\* resolves it normally with done = true.
C1_NoStuckTask ==
  [][ /\ \A t \in Tasks : \A X \in DOMAIN table :
           ( /\ get_mut(table, X)
             /\ SuspendedOn(X) = {t}
             /\ table[X].waker = t
             /\ last'.op = "unbind" /\ last'.rid = X )
           => ( /\ last'.res = "ok"
                /\ t \in last'.woke
                /\ tasks'[t].st = "ready"
                /\ X \notin DOMAIN table' )
      /\ \A X \in Unbound : X \notin DOMAIN table'
      /\ \A t \in Tasks :
           (tasks[t].st = "ready" /\ tasks[t].parked /\ tasks[t].rid \in Unbound)
           => \/ tasks'[t] = tasks[t]
              \/ /\ Polled(t)
                 /\ last'.res = "done_true"
                 /\ tasks'[t].st = "resolved"
                 /\ tasks'[t].done = TRUE
    ]_vars

\* C1 witness: a Poll that had suspended on a bound rid, saw no signal, and
\* was resolved with done = true by the poll that followed the Unbind.
C1_Witness ==
  \E t \in Tasks :
    /\ last.op = "poll" /\ last.task = t /\ last.res = "done_true"
    /\ tasks[t].st = "resolved" /\ tasks[t].done
    /\ tasks[t].parked /\ ~tasks[t].evt
    /\ tasks[t].rid \in Unbound

\* C2 (delivery after poll), as claimed: a sole Poll that suspended on a live
\* rid and then had a signal arrive on that subscription before any Unbind
\* resolves with delivered = true (done = false) in every interleaving.
C2_DeliveryAfterPoll ==
  \A t \in Tasks :
    (tasks[t].st = "resolved" /\ tasks[t].evt /\ Sole(t)) => tasks[t].done = FALSE

\* C3 (delivery before poll): when the event loop polls a Poll for the first
\* time and its live subscription already holds an event, that same step
\* resolves it with done = false and it never suspends.
C3_DeliveryBeforePoll ==
  [][ \A t \in Tasks :
        ( /\ Polled(t)
          /\ ~tasks[t].parked
          /\ get_mut(table, tasks[t].rid)
          /\ table[tasks[t].rid].events > 0 )
        => ( /\ last'.res = "done_false"
             /\ tasks'[t].st = "resolved"
             /\ tasks'[t].done = FALSE
             /\ ~tasks'[t].parked
             /\ table'[tasks[t].rid].events = table[tasks[t].rid].events - 1 )
    ]_vars

\* C3 witness: a Poll resolved with done = false by its first poll.
C3_Witness ==
  \E t \in Tasks :
    /\ last.op = "poll" /\ last.task = t /\ last.res = "done_false"
    /\ tasks[t].st = "resolved" /\ ~tasks[t].done /\ ~tasks[t].parked

\* C4 (double Unbind): for a rid X returned by Bind, Unbind(X) while X is
\* live succeeds and removes exactly X; X then stays absent, and every later
\* Unbind(X) fails with bad_resource_id and leaves the table as it was.
C4_DoubleUnbind ==
  [][ /\ \A X \in bound :
           (last'.op = "unbind" /\ last'.rid = X)
           => IF X \in DOMAIN table
                THEN /\ last'.res = "ok"
                     /\ table' = [r \in (DOMAIN table) \ {X} |-> table[r]]
                ELSE /\ last'.res = "bad_resource_id"
                     /\ table' = table
      /\ \A X \in Unbound : X \notin DOMAIN table' /\ X \in bound'
    ]_vars

\* C4 witness: an Unbind of a rid that Bind returned has just failed.
C4_Witness ==
  /\ last.op = "unbind" /\ last.res = "bad_resource_id"
  /\ last.rid \in Unbound

\* C5 (use after close rejected by Poll), as claimed: a Poll(X) issued after
\* Unbind(X) completed is rejected with an error, not resolved successfully.
C5_PollAfterUnbindRejected ==
  \A t \in Tasks :
    (last.op = "poll" /\ last.task = t /\ tasks[t].late)
    => last.res = "bad_resource_id"

\* C6 (unknown handle), as claimed: Poll and Unbind on a rid the table never
\* handed out both fail with an error and leave table and tasks' wakers alone.
C6_UnknownHandle ==
  [][ /\ \A t \in Tasks :
           (Polled(t) /\ tasks[t].rid >= next_rid)
           => (last'.res = "bad_resource_id" /\ table' = table)
      /\ \A X \in {as_u32(r) : r \in RidArgs} :
           (last'.op = "unbind" /\ last'.rid = X /\ X >= next_rid)
           => (last'.res = "bad_resource_id" /\ table' = table /\ tasks' = tasks)
    ]_vars

\* C7 (wrong-kind identifier), as claimed: Unbind on a live resource of
\* another kind fails with bad_resource_id and leaves it in the table, and
\* Poll on it fails with an error.
C7_WrongKind ==
  [][ \A X \in DOMAIN table :
        table[X].kind = "other"
        => /\ (last'.op = "unbind" /\ last'.rid = X)
              => (last'.res = "bad_resource_id" /\ table' = table)
           /\ \A t \in Tasks :
                (Polled(t) /\ tasks[t].rid = X) => last'.res = "bad_resource_id"
    ]_vars

\* C8 (Bind failure), as claimed: a Bind the platform refuses returns an
\* error value, registers nothing and does not abort the process.
C8_BindFailureIsError ==
  [][ (unix /\ alive /\ last'.op = "bind" /\ last'.res # "ok")
      => ( /\ last'.res = "SubscriptionError"
           /\ alive'
           /\ table' = table /\ next_rid' = next_rid )
    ]_vars

\* C9 (Bind success): a successful Bind returns a rid no live resource held,
\* adds under it exactly one signal resource whose waker is absent, leaves
\* every other entry as it was, and records the rid as returned; every live
\* rid lies below the table's next identifier, so no later add can reuse it.
C9_BindSuccess ==
  [][ /\ (last'.op = "bind" /\ last'.res = "ok" /\ last' # last)
         => LET X == last'.rid IN
              /\ X \notin DOMAIN table
              /\ DOMAIN table' = (DOMAIN table) \cup {X}
              /\ \A r \in DOMAIN table : table'[r] = table[r]
              /\ table'[X].kind = "signal"
              /\ table'[X].waker = None
              /\ bound' = bound \cup {X}
      /\ \A r \in DOMAIN table' : r < next_rid'
    ]_vars

\* C9 witness: a Bind has just added a signal resource to a table that
\* already held a live resource.
C9_Witness ==
  /\ last.op = "bind" /\ last.res = "ok"
  /\ last.rid \in DOMAIN table
  /\ table[last.rid].waker = None
  /\ Cardinality(DOMAIN table) >= 2

\* C10 (unsupported platform), as claimed: without cfg(unix) each of Bind,
\* Poll and Unbind returns a PlatformUnsupported error to its caller.
C10_UnsupportedPlatform ==
  (~unix /\ last.op \in {"bind", "poll", "unbind"})
  => (last.res = "PlatformUnsupported" /\ alive)

\* The live signal resources.
SignalRids == {r \in DOMAIN table : table[r].kind = "signal"}

\* C11 (poll step is one step, waker stored before the check): a poll step
\* looks up, stores the waker and checks for an event with nothing running
\* in between, so no Poll is ever suspended on a live signal resource whose
\* stored waker is absent, and a step that leaves a Poll suspended has stored
\* that Poll's waker in the resource and registered it with the subscription.
C11_SuspendedHasWaker ==
  [][ /\ \A t \in Tasks :
           (tasks'[t].st = "suspended" /\ tasks'[t].rid \in SignalRids')
           => table'[tasks'[t].rid].waker # None
      /\ \A t \in Tasks :
           (Polled(t) /\ tasks'[t].st = "suspended")
           => /\ tasks[t].rid \in SignalRids'
              /\ table'[tasks[t].rid].waker = t
              /\ table'[tasks[t].rid].rx = t
    ]_vars

\* C11 witness: a Poll has just suspended on a live signal resource that
\* holds its waker.
C11_Witness ==
  \E t \in Tasks :
    /\ last.op = "poll" /\ last.task = t /\ last.res = "pending"
    /\ tasks[t].st = "suspended"
    /\ tasks[t].rid \in SignalRids
    /\ table[tasks[t].rid].waker = t

\* C12 (waker slot reflects an outstanding Poll), as claimed: a live signal
\* resource holds a waker only while a Poll on it is outstanding (suspended,
\* or woken and not yet polled again); after a delivered Poll it is absent.
C12_WakerOnlyWhileOutstanding ==
  \A X \in SignalRids :
    table[X].waker # None
    => \E t \in Tasks :
         tasks[t].st \in {"ready", "suspended"} /\ tasks[t].rid = X

\* C13 (two concurrent Polls on one rid): the resource holds one waker. When
\* a second Poll suspends on X while a first is suspended on X, the stored
\* waker becomes the second's; a following Unbind(X) or signal delivery then
\* invokes the second's waker only and the first stays suspended. A Poll that
\* is suspended with no waker of its own left in a live resource stays
\* suspended through every step except a spurious poll of it.
C13_SecondPollStrandsFirst ==
  [][ /\ \A t1 \in Tasks : \A t2 \in Tasks \ {t1} :
           ( /\ tasks[t1].st = "suspended"
             /\ Polled(t2) /\ tasks'[t2].st = "suspended"
             /\ tasks[t2].rid = tasks[t1].rid )
           => table'[tasks[t1].rid].waker = t2
      /\ \A X \in SignalRids : \A t1 \in Tasks : \A t2 \in Tasks \ {t1} :
           ( /\ SuspendedOn(X) = {t1, t2}
             /\ table[X].waker = t2 )
           => /\ (last'.op = "unbind" /\ last'.rid = X)
                 => /\ last'.woke = {t2}
                    /\ tasks'[t2].st = "ready"
                    /\ tasks'[t1].st = "suspended"
              /\ (last'.op = "signal" /\ last'.rid = table[X].signo)
                 => /\ last'.woke = {t2}
                    /\ tasks'[t2].st = "ready"
                    /\ tasks'[t1].st = "suspended"
      /\ \A t \in Tasks :
           ( /\ tasks[t].st = "suspended"
             /\ \/ tasks[t].rid \notin SignalRids
                \/ /\ table[tasks[t].rid].waker # t
                   /\ table[tasks[t].rid].rx # t
             /\ tasks'[t].st # "suspended" )
           => (last'.op = "wake" /\ last'.task = t)
    ]_vars

\* C13 witness: Unbind has just woken one of two Polls on its rid and the
\* other is still suspended on the now absent rid.
C13_Witness ==
  \E t1 \in Tasks : \E t2 \in Tasks \ {t1} :
    /\ last.op = "unbind" /\ last.res = "ok" /\ last.woke = {t2}
    /\ tasks[t2].st = "ready" /\ tasks[t2].rid = last.rid
    /\ tasks[t1].st = "suspended" /\ tasks[t1].rid = last.rid
    /\ last.rid \in Unbound

\* C14 (Poll never suspends on an absent rid): a poll step, first or later,
\* that finds no signal resource under its rid resolves the Poll in that
\* step with done = true; a poll step that leaves the Poll suspended found
\* a signal resource under its rid.
C14_NoSuspendOnAbsent ==
  [][ \A t \in Tasks :
        Polled(t)
        => /\ tasks[t].rid \notin SignalRids
              => /\ last'.res = "done_true"
                 /\ tasks'[t].st = "resolved"
                 /\ tasks'[t].done = TRUE
                 /\ table' = table
           /\ tasks'[t].st = "suspended" => tasks[t].rid \in SignalRids
    ]_vars

\* C14 witness: a Poll that had suspended was polled again after its rid
\* had left the table and resolved with done = true.
C14_Witness ==
  \E t \in Tasks :
    /\ last.op = "poll" /\ last.task = t /\ last.res = "done_true"
    /\ tasks[t].st = "resolved" /\ tasks[t].done /\ tasks[t].parked
    /\ tasks[t].rid \notin SignalRids

\* C15 (Unbind never removes without waking): every step that takes a signal
\* resource carrying a stored waker out of the table is a successful Unbind
\* of that rid which, in the same step, invoked that waker, so a task
\* suspended behind it is scheduled.
C15_UnbindWakesBeforeRemove ==
  [][ \A X \in SignalRids :
        (table[X].waker # None /\ X \notin DOMAIN table')
        => /\ last'.op = "unbind" /\ last'.rid = X /\ last'.res = "ok"
           /\ table[X].waker \in last'.woke
           /\ tasks[table[X].waker].st = "suspended"
              => tasks'[table[X].waker].st = "ready"
    ]_vars

\* C15 witness: an Unbind has just removed a resource and invoked the waker
\* of a Poll that was parked on it.
C15_Witness ==
  \E t \in Tasks :
    /\ last.op = "unbind" /\ last.res = "ok" /\ last.woke = {t}
    /\ last.rid \in Unbound
    /\ tasks[t].rid = last.rid /\ tasks[t].parked /\ tasks[t].st = "ready"

\* C16 (only Poll suspends, and only when nothing is available): a Bind or
\* Unbind step never ends pending; a task becomes suspended only in a poll
\* step of that task which found its signal resource in the table with no
\* event available and stored the task's waker in it.
C16_OnlyPollSuspends ==
  [][ /\ last'.op \in {"bind", "unbind"} => last'.res # "pending"
      /\ \A t \in Tasks :
           (tasks'[t].st = "suspended" /\ tasks[t].st # "suspended")
           => /\ Polled(t) /\ last'.res = "pending"
              /\ tasks[t].rid \in SignalRids
              /\ table[tasks[t].rid].events = 0
              /\ tasks[t].rid \in SignalRids'
              /\ table'[tasks[t].rid].waker = t
              /\ table'[tasks[t].rid].events = 0
    ]_vars

\* C16 witness: a Poll that was woken without an event has suspended again.
C16_Witness ==
  \E t \in Tasks :
    /\ last.op = "poll" /\ last.task = t /\ last.res = "pending"
    /\ tasks[t].st = "suspended" /\ tasks[t].again
    /\ table[tasks[t].rid].events = 0
    /\ table[tasks[t].rid].waker = t

\* C17 (one event per delivered Poll): a poll step resolves with done = false
\* only when the subscription holds an event, and takes exactly one; events
\* are added only by a signal delivery; a poll step on a live signal
\* resource that holds no event suspends, also right after a delivered Poll.
C17_OneEventPerDelivery ==
  [][ /\ \A t \in Tasks :
           Polled(t)
           => /\ last'.res = "done_false"
                 => /\ tasks[t].rid \in SignalRids
                    /\ table[tasks[t].rid].events > 0
                    /\ table'[tasks[t].rid].events
                         = table[tasks[t].rid].events - 1
                    /\ \A r \in (DOMAIN table) \ {tasks[t].rid} :
                         table'[r] = table[r]
              /\ (tasks[t].rid \in SignalRids /\ table[tasks[t].rid].events = 0)
                 => (last'.res = "pending" /\ tasks'[t].st = "suspended")
      /\ \A r \in SignalRids \cap SignalRids' :
           /\ table'[r].events >= 0
           /\ table'[r].events > table[r].events => last'.op = "signal"
           /\ table'[r].events < table[r].events
              => (last'.op = "poll" /\ last'.rid = r /\ last'.res = "done_false")
    ]_vars

\* C17 witness: after one Poll on a rid resolved with done = false, a fresh
\* Poll on the same rid found no event and has just suspended.
C17_Witness ==
  \E t \in Tasks : \E u \in Tasks \ {t} :
    /\ tasks[u].st = "resolved" /\ ~tasks[u].done
    /\ tasks[t].rid = tasks[u].rid
    /\ last.op = "poll" /\ last.task = t /\ last.res = "pending"
    /\ tasks[t].st = "suspended"

\* C18 (subscription ownership): a subscription lives inside its signal
\* resource, so the open subscriptions are the live signal resources. That
\* set grows only by a successful Bind, which adds the returned rid alone,
\* and shrinks only by a successful Unbind, which removes its rid alone; a
\* successful Unbind of a live signal rid does release it; a poll step and
\* a failed Unbind leave the set, and each subscription's signo, as it was.
C18_SubscriptionOwnership ==
  [][ /\ SignalRids' # SignalRids
         => \/ /\ last'.op = "bind" /\ last'.res = "ok"
               /\ last'.rid \notin SignalRids
               /\ SignalRids' = SignalRids \cup {last'.rid}
            \/ /\ last'.op = "unbind" /\ last'.res = "ok"
               /\ last'.rid \in SignalRids
               /\ SignalRids' = SignalRids \ {last'.rid}
      /\ \A X \in SignalRids :
           (last'.op = "unbind" /\ last'.rid = X) => X \notin SignalRids'
      /\ \A r \in SignalRids \cap SignalRids' : table'[r].signo = table[r].signo
    ]_vars

\* C18 witness: a successful Unbind has just released the subscription of a
\* rid Bind returned while another subscription stays live.
C18_Witness ==
  /\ last.op = "unbind" /\ last.res = "ok"
  /\ last.rid \in Unbound
  /\ SignalRids # {}

C20_ResumptionKeepsWaker ==
  [][ /\ \A t \in Tasks :
           ( /\ Polled(t) /\ tasks[t].parked
             /\ tasks[t].rid \in SignalRids
             /\ table[tasks[t].rid].events = 0 )
           => /\ tasks'[t].st = "suspended"
              /\ table'[tasks[t].rid].waker = t
      /\ \A t \in Tasks :
           ( /\ tasks'[t].st = "suspended" /\ Sole(t)'
             /\ tasks'[t].rid \in SignalRids' )
           => table'[tasks'[t].rid].waker = t
      /\ \A t \in Tasks :
           ( /\ tasks[t].st = "suspended" /\ tasks[t].again /\ Sole(t)
             /\ tasks[t].rid \in SignalRids
             /\ last'.op = "unbind" /\ last'.rid = tasks[t].rid )
           => (t \in last'.woke /\ tasks'[t].st = "ready")
      /\ \A t \in Tasks :
           ( /\ Polled(t) /\ tasks[t].again
             /\ tasks[t].rid \notin SignalRids )
           => ( /\ last'.res = "done_true"
                /\ tasks'[t].st = "resolved" /\ tasks'[t].done = TRUE )
    ]_vars

\* C20 witness: a Poll that suspended more than once, with no signal ever
\* arriving for it, was resolved with done = true after its rid was unbound.
C20_Witness ==
  \E t \in Tasks :
    /\ last.op = "poll" /\ last.task = t /\ last.res = "done_true"
    /\ tasks[t].st = "resolved" /\ tasks[t].done
    /\ tasks[t].again /\ ~tasks[t].evt
    /\ tasks[t].rid \in Unbound

====
